---- MODULE Spec2Model ----
(***************************************************************************)
(* A model of build_chords.py: the chord grammar and classifiers, tab      *)
(* expansion, chord position extraction, word-boundary snapping, the line  *)
(* merger, the section parser and the catalog reconciler of main().        *)
(*                                                                         *)
(* Text is a sequence of one-character strings.  Offsets are 0-based, as   *)
(* in the source: the character at offset i of s is s[i + 1].              *)
(*                                                                         *)
(* A value the source binds to a local variable and reads more than once   *)
(* is passed to a local operator as an argument of the same name.          *)
(***************************************************************************)
EXTENDS Integers, Sequences, FiniteSets, TLC

(***************************************************************************)
(* Characters                                                              *)
(***************************************************************************)
TAB == "\t"

\* U+00A0, the no-break space of word processor documents, held as a name.
NBSP == "nbsp"

\* The characters of the model in code point order; the slots of code points
\* 96 and 160 hold names, not the characters.
Chars ==
  << TAB,
     " ", "!", "\"", "#", "$", "%", "&", "'", "(", ")", "*", "+", ",", "-", ".", "/",
     "0", "1", "2", "3", "4", "5", "6", "7", "8", "9", ":", ";", "<", "=", ">", "?",
     "@", "A", "B", "C", "D", "E", "F", "G", "H", "I", "J", "K", "L", "M", "N", "O",
     "P", "Q", "R", "S", "T", "U", "V", "W", "X", "Y", "Z", "[", "\\", "]", "^", "_",
     "grave", "a", "b", "c", "d", "e", "f", "g", "h", "i", "j", "k", "l", "m", "n", "o",
     "p", "q", "r", "s", "t", "u", "v", "w", "x", "y", "z", "{", "|", "}", "~", NBSP >>

Digits == {"0", "1", "2", "3", "4", "5", "6", "7", "8", "9"}

UpperSeq == <<"A", "B", "C", "D", "E", "F", "G", "H", "I", "J", "K", "L", "M",
              "N", "O", "P", "Q", "R", "S", "T", "U", "V", "W", "X", "Y", "Z">>

LowerSeq == <<"a", "b", "c", "d", "e", "f", "g", "h", "i", "j", "k", "l", "m",
              "n", "o", "p", "q", "r", "s", "t", "u", "v", "w", "x", "y", "z">>

Uppers == {UpperSeq[i] : i \in DOMAIN UpperSeq}

Lowers == {LowerSeq[i] : i \in DOMAIN LowerSeq}

\* What str.strip, str.split and the pattern \s take as white space.
Spaces == {" ", TAB, NBSP}

WordChars == Uppers \cup Lowers \cup Digits \cup {"_"}

Roots == {"A", "B", "C", "D", "E", "F", "G"}

Accidentals == {"#", "b"}

LowerChar(c) ==
  LET At(up) == IF \E i \in DOMAIN up : up[i] = c
                THEN LowerSeq[CHOOSE i \in DOMAIN up : up[i] = c] ELSE c
  IN  At(UpperSeq)

(***************************************************************************)
(* str methods                                                             *)
(***************************************************************************)
Lower(s) == [i \in DOMAIN s |-> LowerChar(s[i])]

Slice(s, i, j) == SubSeq(s, i + 1, j)

LStripCount(s) ==
  IF \A k \in DOMAIN s : s[k] \in Spaces THEN Len(s)
  ELSE (CHOOSE k \in DOMAIN s : s[k] \notin Spaces /\ \A m \in 1..(k - 1) : s[m] \in Spaces) - 1

RStripTo(s, cs) ==
  IF \A k \in DOMAIN s : s[k] \in cs THEN 0
  ELSE CHOOSE k \in DOMAIN s : s[k] \notin cs /\ \A m \in (k + 1)..Len(s) : s[m] \in cs

RStrip(s) == SubSeq(s, 1, RStripTo(s, Spaces))

RStripChars(s, cs) == SubSeq(s, 1, RStripTo(s, cs))

Strip(s) == SubSeq(s, LStripCount(s) + 1, RStripTo(s, Spaces))

IsBlank(s) == \A k \in DOMAIN s : s[k] \in Spaces

\* The offsets at which a maximal run of non-separator characters starts.
TokenStarts(s, seps) ==
  {p \in 0..(Len(s) - 1) : s[p + 1] \notin seps /\ (p = 0 \/ s[p] \in seps)}

TokenEnd(s, p, seps) ==
  IF \A k \in (p + 1)..Len(s) : s[k] \notin seps THEN Len(s)
  ELSE (CHOOSE k \in (p + 1)..Len(s) : s[k] \in seps /\ \A m \in (p + 1)..(k - 1) : s[m] \notin seps) - 1

\* A finite set of offsets in increasing order.
SortedSeq(S) ==
  LET UpTo(m) == SelectSeq([i \in 1..(m + 1) |-> i - 1], LAMBDA x : x \in S)
  IN  IF S = {} THEN << >> ELSE UpTo(CHOOSE m \in S : \A y \in S : y <= m)

\* str.split(): the maximal runs of non-whitespace, in order.
Split(s) ==
  LET Tokens(starts) ==
        [k \in DOMAIN starts |-> Slice(s, starts[k], TokenEnd(s, starts[k], Spaces))]
  IN  Tokens(SortedSeq(TokenStarts(s, Spaces)))

HasAt(s, p, lit) ==
  /\ p + Len(lit) <= Len(s)
  /\ \A k \in DOMAIN lit : s[p + k] = lit[k]

\* needle in hay
Contains(hay, needle) == \E p \in 0..Len(hay) : HasAt(hay, p, needle)

EndsWith(s, lit) == Len(lit) <= Len(s) /\ HasAt(s, Len(s) - Len(lit), lit)

RECURSIVE Concat(_)
Concat(ss) == IF ss = << >> THEN << >> ELSE Head(ss) \o Concat(Tail(ss))

RECURSIVE JoinWith(_, _)
JoinWith(ss, sep) ==
  IF ss = << >> THEN << >>
  ELSE IF Len(ss) = 1 THEN ss[1]
  ELSE ss[1] \o sep \o JoinWith(Tail(ss), sep)

Repeat(c, n) == [k \in 1..n |-> c]

(***************************************************************************)
(* Regular-expression matching by sets of offsets: each step maps the set  *)
(* of offsets a match may have reached to the set it may reach next, so a  *)
(* pattern matches exactly when some backtracking path of re would.  A     *)
(* pattern compiled with re.IGNORECASE is matched, with its literals in    *)
(* lower case, against the lower-cased text.                               *)
(***************************************************************************)
ReLit(s, P, lit) == {p + Len(lit) : p \in {q \in P : HasAt(s, q, lit)}}

ReCls(s, P, cs) == {p + 1 : p \in {q \in P : q < Len(s) /\ s[q + 1] \in cs}}

ReStar(s, P, cs) ==
  {q \in 0..Len(s) : \E p \in P : p <= q /\ \A k \in (p + 1)..q : s[k] \in cs}

RePlus(s, P, cs) == ReStar(s, ReCls(s, P, cs), cs)

RePlusNot(s, P, cs) ==
  {q \in 0..Len(s) : \E p \in P : p < q /\ \A k \in (p + 1)..q : s[k] \notin cs}

\* \b at offset p
WordBoundary(s, p) ==
  Cardinality({k \in {p, p + 1} : k >= 1 /\ k <= Len(s) /\ s[k] \in WordChars}) = 1

(***************************************************************************)
(* Chord grammar and classifiers                                           *)
(***************************************************************************)
\* [A-G][#b]? from the offsets of P
ChordRoot(s, P) ==
  LET Acc(root) == root \cup ReCls(s, root, Accidentals)
  IN  Acc(ReCls(s, P, Roots))

\* m(?:aj)?|min|dim|aug|sus[24]?|add\d+ from the offsets of acc
ChordQuality(s, acc) ==
  LET Sus(sus) == sus \cup ReCls(s, sus, {"2", "4"})
  IN  ReLit(s, acc, <<"m">>) \cup ReLit(s, acc, <<"m", "a", "j">>)
      \cup ReLit(s, acc, <<"m", "i", "n">>) \cup ReLit(s, acc, <<"d", "i", "m">>)
      \cup ReLit(s, acc, <<"a", "u", "g">>)
      \cup Sus(ReLit(s, acc, <<"s", "u", "s">>))
      \cup RePlus(s, ReLit(s, acc, <<"a", "d", "d">>), Digits)

\* CHORD_TOKEN_RE / INLINE_CHORDPRO_RE without anchors: the offsets at which
\* a match of the chord grammar that starts at offset p may end.
ChordEnds(s, p) ==
  LET Bass(ext) == ext \cup ChordRoot(s, ReLit(s, ext, <<"/">>))
      Ext(acc) == ReStar(s, acc \cup ChordQuality(s, acc), Digits)
  IN  Bass(Ext(ChordRoot(s, {p})))

CHORD_TOKEN_RE(s) == Len(s) \in ChordEnds(s, 0)

BarLit == <<"b", "a", "r">>

is_chord_token(token) ==
  LET Second(t) == CHORD_TOKEN_RE(IF EndsWith(t, BarLit) THEN SubSeq(t, 1, Len(t) - 3) ELSE t)
  IN  Second(IF EndsWith(token, BarLit) /\ Len(token) > 3
             THEN SubSeq(token, 1, Len(token) - 3) ELSE token)

\* The group of the "X bar" patterns: where ([A-G][#b]?(?:m|maj|...|\d+)?)
\* (full = TRUE, is_chord_line and extract_chords_with_positions) or
\* ([A-G][#b]?) (full = FALSE, extract_inline_chords) may end from offset p.
BarGroupEnds(s, p, full) ==
  LET Group(acc) == IF full THEN acc \cup ChordQuality(s, acc) \cup RePlus(s, acc, Digits)
                    ELSE acc
  IN  Group(ChordRoot(s, {p}))

\* The match of \b(group)\s*bar\b (full) or \b(group)\s+bar\b at offset p,
\* as <<end of the group, end of the match>>, or << >> when there is none.
BarMatch(s, p, full) ==
  LET Pick(ms) == IF ms = {} THEN << >> ELSE CHOOSE m \in ms : TRUE
      Gap(e) == IF full THEN ReStar(s, {e}, Spaces) ELSE RePlus(s, {e}, Spaces)
      Bars(e) == {q \in ReLit(s, Gap(e), BarLit) : WordBoundary(s, q)}
  IN  IF WordBoundary(s, p)
      THEN Pick(UNION {{<< e, q >> : q \in Bars(e)} : e \in BarGroupEnds(s, p, full)})
      ELSE << >>

\* re.sub of that pattern by \1, from offset p on.
RECURSIVE CollapseBar(_, _, _)
CollapseBar(s, p, full) ==
  LET Sub(m) == IF m # << >> THEN Slice(s, p, m[1]) \o CollapseBar(s, m[2], full)
                ELSE << s[p + 1] >> \o CollapseBar(s, p + 1, full)
  IN  IF p >= Len(s) THEN << >> ELSE Sub(BarMatch(s, p, full))

ChordCount(tokens) == Cardinality({k \in DOMAIN tokens : is_chord_token(tokens[k])})

is_chord_line(line) ==
  LET Enough(tokens, chord_count) ==
        chord_count > 0 /\ 10 * chord_count >= 6 * Len(tokens)
      Count(tokens) == tokens # << >> /\ Enough(tokens, ChordCount(tokens))
      Tokens(trimmed) == trimmed # << >> /\ Count(Split(CollapseBar(trimmed, 0, TRUE)))
  IN  Tokens(Strip(line))

\* The end of the match of INLINE_CHORDPRO_RE at offset p, or -1.
InlineEnd(s, p) ==
  LET Pick(es) == IF es = {} THEN -1 ELSE CHOOSE e \in es : TRUE
  IN  Pick(IF HasAt(s, p, <<"[">>) THEN ReLit(s, ChordEnds(s, p + 1), <<"]">>) ELSE {})

\* INLINE_CHORDPRO_RE.findall(line), as the spans <<start, end>> of the matches.
RECURSIVE InlineSpans(_, _)
InlineSpans(s, p) ==
  LET From(e) == IF e >= 0 THEN << <<p, e>> >> \o InlineSpans(s, e)
                 ELSE InlineSpans(s, p + 1)
  IN  IF p >= Len(s) THEN << >> ELSE From(InlineEnd(s, p))

\* INLINE_CHORDPRO_RE.sub('', line), given the spans of the matches.
InlineRemoved(s, spans) ==
  LET Kept(idx) == [k \in DOMAIN idx |-> s[idx[k] + 1]]
  IN  Kept(SortedSeq({i \in 0..(Len(s) - 1) :
                        \A k \in DOMAIN spans : i < spans[k][1] \/ i >= spans[k][2]}))

has_inline_chordpro(line) ==
  LET Has(matches) ==
        IF Len(matches) < 1 THEN FALSE
        ELSE Len(matches) >= 1
             /\ (Len(Strip(InlineRemoved(line, matches))) > 0 \/ Len(matches) >= 2)
  IN  Has(InlineSpans(line, 0))

NonEmpty(lines) == SelectSeq(lines, LAMBDA l : ~IsBlank(l))

\* Line 112 with >= for >.
is_chord_file_at_least(lines) ==
  LET Enough(non_empty, chord_lines) ==
        non_empty # << >> /\ 100 * chord_lines >= 15 * Len(non_empty)
      Count(non_empty) ==
        Enough(non_empty, Cardinality({k \in DOMAIN non_empty :
                 is_chord_line(non_empty[k]) \/ has_inline_chordpro(non_empty[k])}))
  IN  Count(NonEmpty(lines))

is_chord_file(lines) ==
  LET Enough(non_empty, chord_lines) ==
        non_empty # << >> /\ 100 * chord_lines > 15 * Len(non_empty)
      Count(non_empty) ==
        Enough(non_empty, Cardinality({k \in DOMAIN non_empty :
                 is_chord_line(non_empty[k]) \/ has_inline_chordpro(non_empty[k])}))
  IN  Count(NonEmpty(lines))

(***************************************************************************)
(* Tab expansion and chord positions                                       *)
(***************************************************************************)
TabWidth == 4

RECURSIVE ExpandFrom(_, _, _)
ExpandFrom(line, k, col) ==
  IF k > Len(line) THEN << >>
  ELSE IF line[k] = TAB
       THEN Repeat(" ", TabWidth - (col % TabWidth))
            \o ExpandFrom(line, k + 1, col + TabWidth - (col % TabWidth))
       ELSE << line[k] >> \o ExpandFrom(line, k + 1, col + 1)

expand_tabs(line) == ExpandFrom(line, 1, 0)

Punct == {".", ",", ";", ":"}

\* The list of <<position, chord>> pairs.
extract_chords_with_positions(chord_line) ==
  LET Token(collapsed, i) ==
        RStripChars(Slice(collapsed, i, TokenEnd(collapsed, i, {" "})), Punct)
      IsChord(token) == token # << >> /\ is_chord_token(token)
      Pairs(collapsed, kept) == [k \in DOMAIN kept |-> << kept[k], Token(collapsed, kept[k]) >>]
      Chords(collapsed) ==
        Pairs(collapsed, SelectSeq(SortedSeq(TokenStarts(collapsed, {" "})),
                                   LAMBDA i : IsChord(Token(collapsed, i))))
  IN  Chords(CollapseBar(expand_tabs(chord_line), 0, TRUE))

(***************************************************************************)
(* Word-boundary snapping                                                  *)
(***************************************************************************)
\* The forward distance that stands for "no following word".
FarDist == 999

snap_to_word_boundary(pos, lyric) ==
  IF pos >= Len(lyric) THEN pos
  ELSE IF pos = 0 \/ lyric[pos] = " " THEN pos
  ELSE LET word_start == CHOOSE k \in 0..pos :
                           /\ k = 0 \/ lyric[k] = " "
                           /\ \A j \in (k + 1)..pos : lyric[j] # " "
           word_end == CHOOSE n \in pos..Len(lyric) :
                         /\ n = Len(lyric) \/ lyric[n + 1] = " "
                         /\ \A j \in (pos + 1)..n : lyric[j] # " "
           next_word == CHOOSE m \in word_end..Len(lyric) :
                          /\ m = Len(lyric) \/ lyric[m + 1] # " "
                          /\ \A j \in (word_end + 1)..m : lyric[j] = " "
           dist_back == pos - word_start
           dist_fwd == IF next_word < Len(lyric) THEN next_word - pos ELSE FarDist
           word_len == word_end - word_start
       IN  IF word_len > 0 /\ 2 * dist_back > word_len /\ dist_fwd < FarDist
           THEN next_word
           ELSE IF dist_fwd <= dist_back THEN next_word ELSE word_start

(***************************************************************************)
(* Line merger                                                             *)
(***************************************************************************)
MaxPos(chords) ==
  CHOOSE m \in {chords[k][1] : k \in DOMAIN chords} : \A k \in DOMAIN chords : chords[k][1] <= m

\* The lyric line, tab-expanded, right-trimmed and padded to reach max_pos.
PaddedLyric(chords, lyric_line) ==
  LET Pad(lyric, max_pos) ==
        IF Len(lyric) <= max_pos THEN lyric \o Repeat(" ", max_pos + 1 - Len(lyric))
        ELSE lyric
  IN  Pad(RStrip(expand_tabs(lyric_line)), MaxPos(chords))

Snapped(chords, lyric) ==
  [k \in DOMAIN chords |-> << snap_to_word_boundary(chords[k][1], lyric), chords[k][2] >>]

Bracketed(chord) == <<"[">> \o chord \o <<"]">>

\* One iteration of the insertion loop.
InsertChord(result, pos, chord) ==
  LET At(insert_pos) ==
        Slice(result, 0, insert_pos) \o Bracketed(chord) \o Slice(result, insert_pos, Len(result))
  IN  At(IF pos < Len(result) THEN pos ELSE Len(result))

\* for pos, chord in reversed(snapped): the iterations k, k - 1, ..., 1.
RECURSIVE InsertChords(_, _, _)
InsertChords(result, snapped, k) ==
  IF k = 0 THEN result
  ELSE InsertChords(InsertChord(result, snapped[k][1], snapped[k][2]), snapped, k - 1)

\* re.sub(r'\s{2,}(\[[^\]]+\])\s*$', r' \1', result)
CleanTrailing(s) ==
  LET open(p) == ReLit(s, RePlus(s, ReCls(s, {p}, Spaces), Spaces), <<"[">>)
      close(P) == ReLit(s, RePlusNot(s, P, {"]"}), <<"]">>)
      Ends(p) == {c \in close(open(p)) : Len(s) \in ReStar(s, {c}, Spaces)}
      Sub(p, b, c) == Slice(s, 0, p) \o <<" ">> \o Slice(s, b, c)
      At(p) == Sub(p, (CHOOSE x \in open(p) : TRUE) - 1, CHOOSE c \in Ends(p) : TRUE)
      First(ps) == IF ps = {} THEN s ELSE At(CHOOSE x \in ps : \A y \in ps : x <= y)
  IN  First({p \in 0..Len(s) : Ends(p) # {}})

\* re.sub(r'(\]) {2,}', r'] ', result), from offset p on.
RECURSIVE CleanInner(_, _)
CleanInner(s, p) ==
  IF p >= Len(s) THEN << >>
  ELSE IF HasAt(s, p, <<"]", " ", " ">>)
       THEN <<"]", " ">> \o CleanInner(s, CHOOSE q \in ReStar(s, {p + 1}, {" "}) :
                                            q = Len(s) \/ s[q + 1] # " ")
       ELSE << s[p + 1] >> \o CleanInner(s, p + 1)

merge_chord_and_lyric_lines(chord_line, lyric_line) ==
  LET Clean(result) == Strip(CleanInner(CleanTrailing(result), 0))
      Insert(lyric, snapped) == Clean(InsertChords(lyric, snapped, Len(snapped)))
      Snap(chords, lyric) == Insert(lyric, Snapped(chords, lyric))
      Merge(chords) == IF chords = << >> THEN Strip(lyric_line)
                       ELSE Snap(chords, PaddedLyric(chords, lyric_line))
  IN  Merge(extract_chords_with_positions(chord_line))

(***************************************************************************)
(* Section labels                                                          *)
(***************************************************************************)
None == << >>

\* The offset just after the first "]" of a line that starts with a
\* non-empty bracket (SECTION_LABEL_LOOSE_RE's m.end()), or -1.
BracketEnd(trimmed) ==
  LET First(es) == IF es = {} THEN -1 ELSE CHOOSE e \in es : \A x \in es : e <= x
  IN  First(ReLit(trimmed, RePlusNot(trimmed, ReLit(trimmed, {0}, <<"[">>), {"]"}), <<"]">>))

\* SECTION_LABEL_RE.match(trimmed), given e = BracketEnd(trimmed).
SECTION_LABEL_RE(trimmed, e) == e >= 0 /\ Len(trimmed) \in ReStar(trimmed, {e}, Spaces)

\* UNBRACKETED_SECTION_RE.match(trimmed)
UNBRACKETED_SECTION_RE(trimmed) ==
  LET Match(t) ==
        LET chorus == <<"c", "h", "o", "r", "u", "s">>
            repeat == <<"r", "e", "p", "e", "a", "t">>
            Lead(P) == P \cup RePlus(t, ReLit(t, P, repeat), Spaces)
                         \cup RePlus(t, ReLit(t, P, <<"f", "i", "n", "a", "l">>), Spaces)
            Pre(pre) == pre \cup ReCls(t, pre, Spaces \cup {"-"})
            Kw(lead) ==
              ReLit(t, lead, <<"i", "n", "t", "r", "o">>)
              \cup ReLit(t, lead, <<"v", "e", "r", "s", "e">>)
              \cup ReLit(t, lead, chorus)
              \cup ReLit(t, lead, <<"b", "r", "i", "d", "g", "e">>)
              \cup ReLit(t, lead, <<"t", "a", "g">>)
              \cup ReLit(t, lead, <<"o", "u", "t", "r", "o">>)
              \cup ReLit(t, Pre(ReLit(t, lead, <<"p", "r", "e">>)), chorus)
              \cup ReLit(t, lead, <<"i", "n", "t", "e", "r", "l", "u", "d", "e">>)
              \cup ReLit(t, lead, <<"t", "u", "r", "n">>)
              \cup ReLit(t, lead, <<"i", "n", "s", "t", "r", "u", "m", "e", "n", "t", "a", "l">>)
              \cup ReLit(t, lead, <<"e", "n", "d", "i", "n", "g">>)
              \cup ReLit(t, lead, <<"v", "a", "m", "p">>)
            Num(kw) == kw \cup RePlus(t, RePlus(t, kw, Spaces), Digits)
            Rep(num, gap) == num \cup ReLit(t, gap, repeat)
                                 \cup RePlus(t, ReLit(t, gap, <<"x">>), Digits)
            Whole(num) == Len(t) \in ReStar(t, Rep(num, RePlus(t, num, Spaces)), Spaces)
        IN  Whole(Num(Kw(Lead({0}))))
  IN  Match(Lower(trimmed))

IsChordName(content) ==
  is_chord_token(content) \/ is_chord_token(RStripChars(content, Punct))

\* The type of a label from its lower-cased text: lines 283-300 for an
\* unbracketed label, lines 314-329 for a bracketed one.
LabelType(label_lower, bracketed) ==
  IF Contains(label_lower, <<"v", "e", "r", "s", "e">>) THEN "verse"
  ELSE IF Contains(label_lower, <<"c", "h", "o", "r", "u", "s">>)
          \/ (~bracketed /\ Contains(label_lower, <<"r", "e", "p", "e", "a", "t">>)) THEN "chorus"
  ELSE IF Contains(label_lower, <<"b", "r", "i", "d", "g", "e">>) THEN "bridge"
  ELSE IF Contains(label_lower, <<"t", "a", "g">>) THEN "tag"
  ELSE IF Contains(label_lower, <<"i", "n", "t", "r", "o">>) THEN "intro"
  ELSE IF Contains(label_lower, <<"o", "u", "t", "r", "o">>)
          \/ (~bracketed /\ Contains(label_lower, <<"e", "n", "d", "i", "n", "g">>)) THEN "outro"
  ELSE IF Contains(label_lower, <<"p", "r", "e">>) THEN "pre-chorus"
  ELSE "section"

\* None, or <<type, label>>: lines 268-273 for a bracket that SECTION_LABEL_RE
\* matches whole, lines 276-309 for a loose one, lines 279-301 without a bracket.
parse_section_label(line) ==
  LET Label(label, bracketed) == << LabelType(Lower(label), bracketed), label >>
      Bracket(bracket_content, whole, rest) ==
        IF IsChordName(bracket_content) THEN None
        ELSE IF ~whole /\ Len(rest) > 10 THEN None
        ELSE Label(bracket_content, TRUE)
      Parse(trimmed, e) ==
        IF e < 0
        THEN IF UNBRACKETED_SECTION_RE(trimmed) THEN Label(trimmed, FALSE) ELSE None
        ELSE Bracket(Strip(Slice(trimmed, 1, e - 1)), SECTION_LABEL_RE(trimmed, e),
                     Strip(Slice(trimmed, e, Len(trimmed))))
      Trimmed(trimmed) == Parse(trimmed, BracketEnd(trimmed))
  IN  Trimmed(Strip(line))

(***************************************************************************)
(* Titles                                                                  *)
(***************************************************************************)
is_date_header(line) ==
  LET Match(t) == \E q \in ReLit(t, ReStar(t, {0}, Spaces), <<"s", "u", "n", "d", "a", "y">>) :
                    WordBoundary(t, q)
  IN  Match(Lower(line))

\* Each maximal run of characters of cs replaced by one space.
RECURSIVE CollapseRuns(_, _, _)
CollapseRuns(s, k, cs) ==
  IF k > Len(s) THEN << >>
  ELSE IF s[k] \in cs
       THEN IF k > 1 /\ s[k - 1] \in cs THEN CollapseRuns(s, k + 1, cs)
            ELSE <<" ">> \o CollapseRuns(s, k + 1, cs)
       ELSE << s[k] >> \o CollapseRuns(s, k + 1, cs)

clean_filename(filename) ==
  LET Cut(name, ps) == IF ps = {} THEN name
                       ELSE Slice(name, 0, CHOOSE p \in ps : \A q \in ps : p <= q)
      Ext(low, p) == ReLit(low, {p}, <<".", "o", "d", "t">>)
                     \cup ReLit(low, {p}, <<".", "d", "o", "c">>)
                     \cup ReLit(low, {p}, <<".", "d", "o", "c", "x">>)
                     \cup ReLit(low, {p}, <<".", "p", "a", "g", "e", "s">>)
      NoExt(low) == Cut(filename, {p \in 0..Len(low) : Len(low) \in Ext(low, p)})
      Dash(name, a) == ReStar(name, a \cup ReLit(name, a, <<"-">>), Spaces)
      Chords(name, c) == ReStar(name, c \cup ReLit(name, c, <<"s">>), Spaces)
      Suffix(name, p) ==
        Chords(name, ReLit(name, ReCls(name, Dash(name, ReStar(name, {p}, Spaces)), {"C", "c"}),
                           <<"h", "o", "r", "d">>))
      NoSuffix(name) == Cut(name, {p \in 0..Len(name) : Len(name) \in Suffix(name, p)})
  IN  Strip(CollapseRuns(CollapseRuns(NoSuffix(NoExt(Lower(filename))), 1, {"-", "_"}),
                         1, Spaces))

\* The subtitle-ish test of lines 393-401 on the first body line.
IsSubtitle(line) ==
  LET Word(t, P) == RePlus(t, ReCls(t, P, Uppers), Lowers)
      Month(t, w1) == w1 \cup Word(t, ReCls(t, w1, Spaces \cup {"-"}))
      Year(t, month) ==
        ReCls(t, ReCls(t, ReCls(t, ReCls(t, RePlus(t, month, Spaces), Digits), Digits),
                       Digits), Digits)
      Shorthand(lower, num) == Len(lower) \in (num \cup ReCls(lower, num, Lowers))
      Lowered(lower) ==
        \/ ReLit(lower, {0}, <<"c", "a", "p", "o">>) # {}
        \/ ReCls(lower, ReLit(lower, {0}, <<"k", "e", "y">>), Spaces) # {}
        \/ ReCls(lower, ReLit(lower, {0}, <<"b", "y">>), Spaces) # {}
        \/ Shorthand(lower, RePlus(lower, {0}, Digits))
      Cased(t, w1) ==
        \/ Year(t, Month(t, w1)) # {}
        \/ ReCls(t, ReLit(t, ReCls(t, {0}, Uppers), <<".">>), Spaces) # {}
        \/ Len(t) \in Word(t, RePlus(t, w1, Spaces))
      Short(t) ==
        /\ Len(Split(t)) <= 4
        /\ ~is_chord_line(line)
        /\ parse_section_label(t) = None
        /\ ReCls(t, {0}, Uppers) # {}
        /\ \E k \in DOMAIN t : t[k] \in Digits
      Trimmed(t) == Lowered(Lower(t)) \/ Cased(t, Word(t, {0})) \/ Short(t)
  IN  Trimmed(Strip(line))

(***************************************************************************)
(* Key detection                                                           *)
(***************************************************************************)
\* The keys of NOTE_TO_INDEX.
NOTE_TO_INDEX ==
  { <<"C">>, <<"C", "#">>, <<"D">>, <<"D", "#">>, <<"E">>, <<"F">>, <<"F", "#">>,
    <<"G">>, <<"G", "#">>, <<"A">>, <<"A", "#">>, <<"B">>,
    <<"D", "b">>, <<"E", "b">>, <<"G", "b">>, <<"A", "b">>, <<"B", "b">> }

\* re.finditer(r'\[([A-G][#b]?)', line): the roots found, left to right.
RECURSIVE LineRoots(_, _)
LineRoots(line, p) ==
  LET Found(r, e) == IF r = {} THEN LineRoots(line, p + 1)
                     ELSE << Slice(line, p + 1, e) >> \o LineRoots(line, e)
      Root(r) == Found(r, IF ReCls(line, r, Accidentals) # {} THEN p + 3 ELSE p + 2)
  IN  IF p >= Len(line) THEN << >>
      ELSE Root(ReCls(line, ReLit(line, {p}, <<"[">>), Roots))

\* Every counted root of the song, in the order the loops of detect_key meet them.
AllRoots(sections) ==
  LET perLine(l) == SelectSeq(LineRoots(l, 0), LAMBDA r : r \in NOTE_TO_INDEX)
      perSection(sec) == Concat([k \in DOMAIN sec.lines |-> perLine(sec.lines[k])])
  IN  Concat([k \in DOMAIN sections |-> perSection(sections[k])])

detect_key(sections) ==
  LET Key(roots) ==
        LET count(r) == Cardinality({k \in DOMAIN roots : roots[k] = r})
            first(r) == CHOOSE k \in DOMAIN roots : roots[k] = r /\ \A j \in 1..(k - 1) : roots[j] # r
        IN  IF roots = << >> THEN <<"C">>
            ELSE roots[CHOOSE k \in DOMAIN roots :
                         /\ first(roots[k]) = k
                         /\ \A j \in DOMAIN roots :
                              \/ count(roots[j]) < count(roots[k])
                              \/ count(roots[j]) = count(roots[k]) /\ first(roots[j]) >= k]
  IN  Key(AllRoots(sections))

(***************************************************************************)
(* Section parser                                                          *)
(***************************************************************************)
\* re.split(r'\t+', line, maxsplit=1) and the chord prefix; None when the
\* line has no chords before a tab.
extract_inline_chords(line) ==
  LET Prefix(chords) == Concat([k \in DOMAIN chords |-> Bracketed(chords[k])])
      Build(tokens, after_tab) ==
        IF tokens # << >> /\ 2 * ChordCount(tokens) >= Len(tokens)
        THEN Prefix(SelectSeq(tokens, is_chord_token)) \o after_tab
        ELSE None
      Parts(before_tab, after_tab) ==
        IF before_tab # << >> /\ after_tab # << >>
        THEN Build(Split(CollapseBar(before_tab, 0, FALSE)), after_tab)
        ELSE None
      AfterTabs(t) == CHOOSE q \in ReStar(line, {t}, {TAB}) : q = Len(line) \/ line[q + 1] # TAB
      SplitAt(t) == Parts(Strip(SubSeq(line, 1, t - 1)), Strip(Slice(line, AfterTabs(t), Len(line))))
      Tabs(tabs) == IF Strip(line) = << >> \/ tabs = {} THEN None
                    ELSE SplitAt(CHOOSE k \in tabs : \A j \in tabs : k <= j)
  IN  Tabs({k \in DOMAIN line : line[k] = TAB})

TitleMaxLen == 80

\* Lines 341-350: the number of leading blank lines and date headers.
StartIdx(raw_lines) ==
  Cardinality({k \in 1..Len(raw_lines) :
                 \A j \in 1..k : IsBlank(raw_lines[j]) \/ is_date_header(raw_lines[j])})

\* Lines 357-376, from line k on: None, or <<title, title_end>>.  Once a
\* section label or a chord line is met, no later line becomes the title.
RECURSIVE TitleScan(_, _)
TitleScan(lines, k) ==
  LET Line(line, trimmed) ==
        IF trimmed = << >> THEN TitleScan(lines, k + 1)
        ELSE IF parse_section_label(trimmed) # None \/ is_chord_line(line) THEN None
        ELSE IF Len(trimmed) < TitleMaxLen THEN << trimmed, k >>
        ELSE TitleScan(lines, k + 1)
  IN  IF k > Len(lines) THEN None ELSE Line(lines[k], Strip(lines[k]))

\* Lines 381-404: the lines left after the title, leading blanks and subtitles.
BodyLines(lines, title_end) ==
  LET Skipped(rest) ==
        Cardinality({k \in 1..Len(rest) :
                       \A j \in 1..k : IsBlank(rest[j]) \/ IsSubtitle(rest[j])})
      Rest(rest) == SubSeq(rest, Skipped(rest) + 1, Len(rest))
  IN  Rest(SubSeq(lines, title_end + 1, Len(lines)))

NewSection(type, label) == [type |-> type, label |-> label, lines |-> << >>]

Append1(current, line) == [current EXCEPT !.lines = Append(@, line)]

\* Line 441-443: the offset of the next non-blank line after offset i.
Lookahead(body_lines, i) ==
  CHOOSE j \in (i + 1)..Len(body_lines) :
    /\ j = Len(body_lines) \/ ~IsBlank(body_lines[j + 1])
    /\ \A k \in (i + 2)..j : IsBlank(body_lines[k])

\* Line 445
HasLyric(body_lines, j) ==
  /\ j < Len(body_lines)
  /\ ~is_chord_line(body_lines[j + 1])
  /\ parse_section_label(Strip(body_lines[j + 1])) = None

\* Which branch of the body loop takes the line at offset i.
LineKind(body_lines, i) ==
  LET Kind(line) ==
        IF Strip(line) = << >> THEN "blank"
        ELSE IF parse_section_label(Strip(line)) # None THEN "label"
        ELSE IF is_chord_line(line)
             THEN IF HasLyric(body_lines, Lookahead(body_lines, i)) THEN "merge" ELSE "chords"
        ELSE IF has_inline_chordpro(line) THEN "inline"
        ELSE "lyric"
  IN  Kind(body_lines[i + 1])

\* Lines 416-421 without the i += 1 of line 420.
ScanBlankStuck(st) ==
  [st EXCEPT !.current = IF @.lines # << >> THEN Append1(@, << >>) ELSE @]

ScanBlank(st) ==
  [st EXCEPT !.current = IF @.lines # << >> THEN Append1(@, << >>) ELSE @,
             !.i = @ + 1]

ScanLabel(body_lines, st) ==
  LET Start(section_info) ==
        [i |-> st.i + 1,
         sections |-> IF st.current.lines # << >> THEN Append(st.sections, st.current)
                      ELSE st.sections,
         current |-> NewSection(section_info[1], section_info[2])]
  IN  Start(parse_section_label(Strip(body_lines[st.i + 1])))

ScanMerge(body_lines, st) ==
  LET Merged(j) ==
        [st EXCEPT !.current = Append1(@, merge_chord_and_lyric_lines(body_lines[st.i + 1],
                                                                     body_lines[j + 1])),
                   !.i = j + 1]
  IN  Merged(Lookahead(body_lines, st.i))

ScanChords(body_lines, st) ==
  LET Joined(chords) ==
        [st EXCEPT !.current =
                     IF chords # << >>
                     THEN Append1(@, JoinWith([k \in DOMAIN chords |-> Bracketed(chords[k][2])],
                                              <<" ">>))
                     ELSE @,
                   !.i = @ + 1]
  IN  Joined(extract_chords_with_positions(body_lines[st.i + 1]))

\* Line 462 without the strip() of line 413.
ScanInlineUntrimmed(body_lines, st) ==
  [st EXCEPT !.current = Append1(@, body_lines[st.i + 1]), !.i = @ + 1]

ScanInline(body_lines, st) ==
  [st EXCEPT !.current = Append1(@, Strip(body_lines[st.i + 1])), !.i = @ + 1]

ScanLyric(body_lines, st) ==
  LET Plain(line, inline_chords) ==
        [st EXCEPT !.current = Append1(@, IF inline_chords # None THEN inline_chords
                                          ELSE Strip(line)),
                   !.i = @ + 1]
  IN  Plain(body_lines[st.i + 1], extract_inline_chords(body_lines[st.i + 1]))

\* One iteration of the while loop of lines 411-473 on a line of the given kind.
ScanKind(body_lines, st, kind) ==
  CASE kind = "blank" -> ScanBlank(st)
    [] kind = "label" -> ScanLabel(body_lines, st)
    [] kind = "merge" -> ScanMerge(body_lines, st)
    [] kind = "chords" -> ScanChords(body_lines, st)
    [] kind = "inline" -> ScanInline(body_lines, st)
    [] OTHER -> ScanLyric(body_lines, st)

ScanStep(body_lines, st) == ScanKind(body_lines, st, LineKind(body_lines, st.i))

ScanInit == [i |-> 0, sections |-> << >>, current |-> NewSection("verse", << >>)]

RECURSIVE ScanAll(_, _)
ScanAll(body_lines, st) ==
  IF st.i < Len(body_lines) THEN ScanAll(body_lines, ScanStep(body_lines, st)) ELSE st

\* Lines 476-477
Flush(st) ==
  IF st.current.lines # << >> THEN Append(st.sections, st.current) ELSE st.sections

\* Lines 481-484 without the collapse of lines 486-491.
TrimLines(lines) ==
  LET Trimmed(nonblank) ==
        IF nonblank = {} THEN << >>
        ELSE SubSeq(lines, CHOOSE k \in nonblank : \A j \in nonblank : k <= j,
                    CHOOSE k \in nonblank : \A j \in nonblank : j <= k)
  IN  Trimmed({k \in DOMAIN lines : lines[k] # << >>})

\* Lines 481-491 on the lines of one section.
CleanLines(lines) ==
  LET Collapsed(trimmed) ==
        SelectSeq([k \in DOMAIN trimmed |->
                     IF trimmed[k] = << >> /\ k > 1 /\ trimmed[k - 1] = << >>
                     THEN << "dup" >> ELSE << "keep", trimmed[k] >>],
                  LAMBDA e : e[1] = "keep")
      Lines(kept) == [k \in DOMAIN kept |-> kept[k][2]]
      Trimmed(nonblank) ==
        IF nonblank = {} THEN << >>
        ELSE SubSeq(lines, CHOOSE k \in nonblank : \A j \in nonblank : k <= j,
                    CHOOSE k \in nonblank : \A j \in nonblank : j <= k)
  IN  Lines(Collapsed(Trimmed({k \in DOMAIN lines : lines[k] # << >>})))

\* Lines 480-494
CleanSections(sections) ==
  SelectSeq([k \in DOMAIN sections |-> [sections[k] EXCEPT !.lines = CleanLines(@)]],
            LAMBDA sec : sec.lines # << >>)

\* The title and the body lines of a document that is a chord file.
Header(raw_lines, filename) ==
  LET Found(lines, found) ==
        [title |-> IF found = None THEN clean_filename(filename) ELSE found[1],
         body_lines |-> BodyLines(lines, IF found = None THEN 0 ELSE found[2])]
      Lines(lines) == Found(lines, TitleScan(lines, 1))
  IN  Lines(SubSeq(raw_lines, StartIdx(raw_lines) + 1, Len(raw_lines)))

\* Lines 496-505
Song(title, sections) ==
  IF sections = << >> THEN None
  ELSE [title |-> title, key |-> detect_key(sections), sections |-> sections]

\* None, or the song; raw_lines is text.split('\n').
parse_chord_file(raw_lines, filename) ==
  LET Parse(h) == Song(h.title, CleanSections(Flush(ScanAll(h.body_lines, ScanInit))))
  IN  IF ~is_chord_file(raw_lines) THEN None ELSE Parse(Header(raw_lines, filename))

(***************************************************************************)
(* Catalog reconciler: helpers of main()                                   *)
(***************************************************************************)
normalize_title(title) == SelectSeq(Lower(title), LAMBDA c : c \in Lowers \cup Digits)

\* c < d for characters: by code point.
CharLess(c, d) ==
  LET Before(order) == (CHOOSE i \in DOMAIN order : order[i] = c)
                       < (CHOOSE j \in DOMAIN order : order[j] = d)
  IN  Before(Chars)

\* a < b for str: by code point, a proper prefix first.
StrLess(a, b) ==
  \E k \in 1..Len(b) :
    /\ k <= Len(a) + 1
    /\ \A j \in 1..(k - 1) : a[j] = b[j]
    /\ k = Len(a) + 1 \/ CharLess(a[k], b[k])

\* list.sort / sorted on <<key, value>> pairs: stable, ascending by key.
SortPairs(pairs) ==
  LET rank(k) == 1 + Cardinality({j \in DOMAIN pairs :
                      \/ StrLess(pairs[j][1], pairs[k][1])
                      \/ j < k /\ ~StrLess(pairs[k][1], pairs[j][1])})
  IN  [r \in DOMAIN pairs |-> pairs[CHOOSE k \in DOMAIN pairs : rank(k) = r]]

Values(pairs) == [k \in DOMAIN pairs |-> pairs[k][2]]

\* all_songs.sort(key=lambda s: s['title'].lower())
\* Line 630 left out.
Unsorted(songs) == songs

SortSongs(songs) == Values(SortPairs([k \in DOMAIN songs |-> << Lower(songs[k].title), songs[k] >>]))

\* os.path.splitext(f)[1].lower()
ExtLower(f) ==
  LET From(dots) == IF dots = {} THEN << >>
                    ELSE Lower(SubSeq(f, CHOOSE k \in dots : \A j \in dots : j <= k, Len(f)))
  IN  From({k \in DOMAIN f : f[k] = "." /\ \E j \in 1..(k - 1) : f[j] # "."})

extensions == { <<".", "o", "d", "t">>, <<".", "d", "o", "c">>, <<".", "d", "o", "c", "x">> }

RECURSIVE SetToSeq(_)
SetToSeq(S) ==
  IF S = {} THEN << >>
  ELSE LET x == CHOOSE y \in S : TRUE IN << x >> \o SetToSeq(S \ {x})

\* Lines 568-571: the sorted names of the song files of a directory listing.
SongFiles(names) ==
  LET Sorted(listed) == Values(SortPairs([k \in DOMAIN listed |-> << listed[k], listed[k] >>]))
  IN  Sorted(SetToSeq({f \in names : ExtLower(f) \in extensions /\ ~HasAt(f, 0, <<"~", "$">>)}))

FORCE == <<"-", "-", "f", "o", "r", "c", "e">>

FORCE_SONG == FORCE \o <<"-", "s", "o", "n", "g">>

\* Lines 561-565
\* Line 561 looking at the last argument only.
ForceAllLast(args) == args[Len(args)] = FORCE

ForceAll(args) == \E i \in DOMAIN args : args[i] = FORCE

ForceSongs(args) ==
  {normalize_title(args[i + 1]) : i \in {j \in 1..(Len(args) - 1) : args[j] = FORCE_SONG}}

HasTitle(entry) == "title" \in DOMAIN entry

\* The catalog file is absent, cannot be read, holds no "const CHORD_SONGS =
\* [...];", holds an array json.loads rejects, or holds an array of objects.
load_existing_songs(file) ==
  IF file.kind = "absent" THEN << >>
  ELSE IF file.kind \in {"unreadable", "nomatch", "badjson"} THEN << >>
  ELSE file.songs

\* Line 589 with "fs in nt" alone.
ForceMatchedContains(nt, fragments) == \E fs \in fragments : Contains(nt, fs)

\* Line 589
ForceMatched(nt, fragments) == \E fs \in fragments : Contains(nt, fs) \/ Contains(fs, nt)

\* Lines 616-618 with "nt in existing_titles" alone.
MatchExact(nt, titles) == nt \in titles

\* Lines 616-618
MatchFound(nt, titles) ==
  nt \in titles \/ \E et \in titles : Contains(et, nt) \/ Contains(nt, et)

(***************************************************************************)
(* State                                                                   *)
(***************************************************************************)
VARIABLES
  \* main(): the inputs
  argv,             \* sys.argv
  catalog_file,     \* chord_songs.js before the run
  lyrics_dir,       \* LYRICS_DIR: file name -> [text, conv], conv the outcome of textutil
  parsed,           \* song file name -> parse_chord_file(result.stdout, filename)
  \* main(): the locals
  pc, force_all, force_songs, files, existing_songs, existing_titles,
  idx, new_songs, skipped, already_existed,
  written,          \* the array written to chord_songs.js
  \* parse_chord_file on one document
  raw_lines, filename, ppc, title, body_lines, scan, song,
  \* merge_chord_and_lyric_lines on one pair of lines
  chord_line, lyric_line, mpc, chords, lyric, snapped, result, remaining,
  \* snap_to_word_boundary on one column
  spc, snap_pos, snap_lyric, snap_out,
  \* parse_section_label on one line
  lpc, label_line, label_out,
  \* detect_key on the sections of one song
  kpc, key_sections, key_out

mainVars == << argv, catalog_file, lyrics_dir, parsed, pc, force_all, force_songs, files,
               existing_songs, existing_titles, idx, already_existed, written >>

outVars == << new_songs, skipped >>

parseVars == << raw_lines, filename, ppc, title, body_lines, scan, song >>

mergeVars == << chord_line, lyric_line, mpc, chords, lyric, snapped, result, remaining >>

snapVars == << spc, snap_pos, snap_lyric, snap_out >>

labelVars == << lpc, label_line, label_out >>

keyVars == << kpc, key_sections, key_out >>

vars == << mainVars, outVars, parseVars, mergeVars, snapVars, labelVars, keyVars >>

MainIdle ==
  /\ argv = << >> /\ catalog_file = [kind |-> "absent"] /\ lyrics_dir = << >>
  /\ parsed = << >>
  /\ pc = "idle" /\ force_all = FALSE /\ force_songs = {} /\ files = << >>
  /\ existing_songs = << >> /\ existing_titles = {} /\ idx = 0
  /\ already_existed = 0 /\ written = << >>

OutIdle == new_songs = << >> /\ skipped = << >>

ParseIdle ==
  /\ raw_lines = << >> /\ filename = << >> /\ ppc = "idle" /\ title = << >>
  /\ body_lines = << >> /\ scan = ScanInit /\ song = None

MergeIdle ==
  /\ chord_line = << >> /\ lyric_line = << >> /\ mpc = "idle" /\ chords = << >>
  /\ lyric = << >> /\ snapped = << >> /\ result = << >> /\ remaining = 0

SnapIdle == spc = "idle" /\ snap_pos = 0 /\ snap_lyric = << >> /\ snap_out = 0

LabelIdle == lpc = "idle" /\ label_line = << >> /\ label_out = None

KeyIdle == kpc = "idle" /\ key_sections = << >> /\ key_out = << >>

(***************************************************************************)
(* The batch: main()                                                       *)
(***************************************************************************)
MaxCatalog == 2

MaxFiles == 2

Prog == <<"b">>

ArgvPool ==
  { << Prog >>,
    << Prog, FORCE >>,
    << Prog, FORCE_SONG, <<"A">> >>,
    << Prog, FORCE_SONG, <<"a", "b">> >>,
    << Prog, FORCE_SONG, <<"A">>, FORCE_SONG, <<"c", "-", "d">> >>,
    << Prog, FORCE, FORCE_SONG, <<"A">> >> }

Edited(t, k) ==
  [title |-> t, key |-> k,
   sections |-> << [type |-> "verse", label |-> << >>, lines |-> << <<"e", "d", "i", "t">> >>] >>]

EntryPool ==
  { Edited(<<"A", "b">>, <<"G">>), Edited(<<"B">>, <<"D">>), Edited(<<"C", "d">>, <<"E">>) }

Untitled == [key |-> <<"G">>, sections |-> << >>]

\* The sequences without repetition of at most n elements of S.
Arrangements(S, n) ==
  {q \in UNION {[1..k -> S] : k \in 0..n} : \A i, j \in DOMAIN q : i # j => q[i] # q[j]}

CatalogPool ==
  {[kind |-> k] : k \in {"absent", "unreadable", "nomatch", "badjson"}}
  \cup {[kind |-> "array", songs |-> q] : q \in Arrangements(EntryPool, MaxCatalog)}
  \cup {[kind |-> "array", songs |-> << Edited(<<"B">>, <<"D">>), Untitled >>]}

DocAB == << <<"A", "B">>, <<"G", " ", " ", "C">>, <<"a", "b", " ", "c", "d">> >>

DocBC == << <<"b", " ", "c">>, <<"[", "C", "]", "a", "b", " ", "c", "d">> >>

DocHi == << <<"H", "i">>, << >>, <<"G">>, <<"l", "a">> >>

DocNoTitle == << <<"G", " ", " ", "C">>, <<"a", "b", " ", "c", "d">> >>

DocWords == << <<"w", "o", "r", "d", "s">>, <<"m", "o", "r", "e">> >>

FilePool ==
  {[text |-> d, conv |-> "ok"] : d \in {DocAB, DocBC, DocHi, DocNoTitle, DocWords}}
  \cup {[text |-> DocHi, conv |-> c] : c \in {"nonzero", "timeout"}}

NamePool == { <<"a", ".", "o", "d", "t">>, <<"b", ".", "D", "O", "C">>, <<"c", ".", "d", "o", "c", "x">> }

\* Names os.listdir returns beside the song files.
OtherNames == { <<"~", "$", "a", ".", "o", "d", "t">>, <<"n", ".", "t", "x", "t">> }

DirPool ==
  UNION {{[n \in N \cup OtherNames |-> IF n \in N THEN d[n] ELSE [text |-> DocHi, conv |-> "ok"]] :
            d \in [N -> FilePool]} : N \in {M \in SUBSET NamePool : Cardinality(M) <= MaxFiles}}

\* Line 612 for every song file of a directory: what parse_chord_file returns on
\* the converted text, which depends on the directory alone.
ParseAll(dir) ==
  LET Each(names) == [n \in {names[k] : k \in DOMAIN names} |-> parse_chord_file(dir[n].text, n)]
  IN  Each(SongFiles(DOMAIN dir))

InitMain ==
  /\ lyrics_dir \in DirPool
  /\ parsed = ParseAll(lyrics_dir)
  /\ argv \in ArgvPool
  /\ catalog_file \in CatalogPool
  /\ pc = "start" /\ force_all = FALSE /\ force_songs = {} /\ files = << >>
  /\ existing_songs = << >> /\ existing_titles = {} /\ idx = 0
  /\ already_existed = 0 /\ written = << >>
  /\ OutIdle /\ ParseIdle /\ MergeIdle /\ SnapIdle /\ LabelIdle /\ KeyIdle

Titles(songs) == {normalize_title(songs[k].title) : k \in DOMAIN songs}

\* Lines 561-577 with --force.
StartForce ==
  /\ pc = "start" /\ ForceAll(argv)
  /\ force_all' = TRUE
  /\ force_songs' = ForceSongs(argv)
  /\ files' = SongFiles(DOMAIN lyrics_dir)
  /\ existing_songs' = << >>
  /\ existing_titles' = {}
  /\ pc' = "loaded"
  /\ UNCHANGED << argv, catalog_file, lyrics_dir, parsed, idx, already_existed, written,
                  outVars, parseVars, mergeVars, snapVars, labelVars, keyVars >>

\* Lines 561-577 without --force.
StartLoad ==
  /\ pc = "start" /\ ~ForceAll(argv)
  /\ \A k \in DOMAIN load_existing_songs(catalog_file) : HasTitle(load_existing_songs(catalog_file)[k])
  /\ force_all' = FALSE
  /\ force_songs' = ForceSongs(argv)
  /\ files' = SongFiles(DOMAIN lyrics_dir)
  /\ existing_songs' = load_existing_songs(catalog_file)
  /\ existing_titles' = Titles(load_existing_songs(catalog_file))
  /\ pc' = "loaded"
  /\ UNCHANGED << argv, catalog_file, lyrics_dir, parsed, idx, already_existed, written,
                  outVars, parseVars, mergeVars, snapVars, labelVars, keyVars >>

\* Line 577 on an entry without 'title': KeyError, outside every try.
StartKeyError ==
  /\ pc = "start" /\ ~ForceAll(argv)
  /\ \E k \in DOMAIN load_existing_songs(catalog_file) : ~HasTitle(load_existing_songs(catalog_file)[k])
  /\ force_all' = FALSE
  /\ force_songs' = ForceSongs(argv)
  /\ files' = SongFiles(DOMAIN lyrics_dir)
  /\ existing_songs' = load_existing_songs(catalog_file)
  /\ pc' = "raised"
  /\ UNCHANGED << argv, catalog_file, lyrics_dir, parsed, existing_titles, idx, already_existed,
                  written, outVars, parseVars, mergeVars, snapVars, labelVars, keyVars >>

\* Lines 586-595
Kept(songs, fragments) ==
  SelectSeq(songs, LAMBDA s : ~ForceMatched(normalize_title(s.title), fragments))

Discarded(songs, fragments) ==
  {nt \in Titles(songs) : ForceMatched(nt, fragments)}

\* Lines 579-599 when --force-song entries are to be removed.
Reimport ==
  /\ pc = "loaded"
  /\ ~force_all /\ existing_songs # << >> /\ force_songs # {}
  /\ existing_songs' = Kept(existing_songs, force_songs)
  /\ existing_titles' = existing_titles \ Discarded(existing_songs, force_songs)
  /\ new_songs' = << >> /\ skipped' = << >> /\ already_existed' = 0 /\ idx' = 0
  /\ pc' = "loop"
  /\ UNCHANGED << argv, catalog_file, lyrics_dir, parsed, force_all, force_songs, files, written,
                  parseVars, mergeVars, snapVars, labelVars, keyVars >>

\* Lines 579-599 otherwise.
NoReimport ==
  /\ pc = "loaded"
  /\ force_all \/ existing_songs = << >> \/ force_songs = {}
  /\ new_songs' = << >> /\ skipped' = << >> /\ already_existed' = 0 /\ idx' = 0
  /\ pc' = "loop"
  /\ UNCHANGED << argv, catalog_file, lyrics_dir, parsed, force_all, force_songs, files,
                  existing_songs, existing_titles, written, parseVars, mergeVars, snapVars, labelVars, keyVars >>

Current == lyrics_dir[files[idx + 1]]

CurrentSong == parsed[files[idx + 1]]

InLoop == pc = "loop" /\ idx < Len(files)

loopFrame == << argv, catalog_file, lyrics_dir, parsed, pc, force_all, force_songs, files,
                existing_songs, existing_titles, written, parseVars, mergeVars, snapVars, labelVars, keyVars >>

\* Lines 608-610 with break for continue.
ConversionErrorEndsBatch ==
  /\ InLoop /\ Current.conv = "nonzero"
  /\ skipped' = Append(skipped, << files[idx + 1], "conversion error" >>)
  /\ idx' = Len(files)
  /\ UNCHANGED << new_songs, already_existed, loopFrame >>

\* Lines 608-610
ConversionError ==
  /\ InLoop /\ Current.conv = "nonzero"
  /\ skipped' = Append(skipped, << files[idx + 1], "conversion error" >>)
  /\ idx' = idx + 1
  /\ UNCHANGED << new_songs, already_existed, loopFrame >>

\* Lines 604-607 raising (TimeoutExpired), caught at lines 625-626.
ConversionRaises ==
  /\ InLoop /\ Current.conv = "timeout"
  /\ skipped' = Append(skipped, << files[idx + 1], "timed out" >>)
  /\ idx' = idx + 1
  /\ UNCHANGED << new_songs, already_existed, loopFrame >>

\* Lines 612-613, 623-624
NotChordFile ==
  /\ InLoop /\ Current.conv = "ok" /\ CurrentSong = None
  /\ skipped' = Append(skipped, << files[idx + 1], "not a chord file" >>)
  /\ idx' = idx + 1
  /\ UNCHANGED << new_songs, already_existed, loopFrame >>

\* Lines 612-620
AlreadyExisted ==
  /\ InLoop /\ Current.conv = "ok" /\ CurrentSong # None
  /\ MatchFound(normalize_title(CurrentSong.title), existing_titles)
  /\ already_existed' = already_existed + 1
  /\ idx' = idx + 1
  /\ UNCHANGED << new_songs, skipped, loopFrame >>

\* Lines 612-622 with existing_titles.add(normalized) after line 622.
NewSongRemembered ==
  /\ InLoop /\ Current.conv = "ok" /\ CurrentSong # None
  /\ ~MatchFound(normalize_title(CurrentSong.title), existing_titles)
  /\ new_songs' = Append(new_songs, CurrentSong)
  /\ existing_titles' = existing_titles \cup {normalize_title(CurrentSong.title)}
  /\ idx' = idx + 1
  /\ UNCHANGED << skipped, already_existed, argv, catalog_file, lyrics_dir, parsed, pc,
                  force_all, force_songs, files, existing_songs, written,
                  parseVars, mergeVars, snapVars, labelVars, keyVars >>

\* Lines 612-622
NewSong ==
  /\ InLoop /\ Current.conv = "ok" /\ CurrentSong # None
  /\ ~MatchFound(normalize_title(CurrentSong.title), existing_titles)
  /\ new_songs' = Append(new_songs, CurrentSong)
  /\ idx' = idx + 1
  /\ UNCHANGED << skipped, already_existed, loopFrame >>

\* Lines 628-637
WriteCatalog ==
  /\ pc = "loop" /\ idx = Len(files)
  /\ written' = SortSongs(existing_songs \o new_songs)
  /\ pc' = "done"
  /\ UNCHANGED << argv, catalog_file, lyrics_dir, parsed, force_all, force_songs, files,
                  existing_songs, existing_titles, idx, already_existed,
                  outVars, parseVars, mergeVars, snapVars, labelVars, keyVars >>

NextMain ==
  \/ StartForce \/ StartLoad \/ StartKeyError
  \/ Reimport \/ NoReimport
  \/ ConversionError \/ ConversionRaises \/ NotChordFile \/ AlreadyExisted \/ NewSong
  \/ WriteCatalog

SpecMain == InitMain /\ [][NextMain]_vars


(***************************************************************************)
(* One document through parse_chord_file and the loop body of main()       *)
(***************************************************************************)
MaxDocLines == 4

LinePool ==
  { << >>,
    <<"G">>,
    <<"l", "a">>,
    <<" ", "[", "C", "]", "a">>,
    <<"G", " ", "A", "m", " ", "[", "C", "]", "x">>,
    <<"[", "T", "a", "g", "]", " ", "[", "G", "]", "x">>,
    <<"G", NBSP, "A", "m">> }

DocPool == UNION {[1..n -> LinePool] : n \in 0..MaxDocLines}

DocName == <<"t", ".", "o", "d", "t">>

\* text.split('\n') of a text without line breaks is one empty line.
InitParse ==
  /\ raw_lines \in {IF d = << >> THEN << << >> >> ELSE d : d \in DocPool}
  /\ filename = DocName
  /\ ppc = "start" /\ title = << >> /\ body_lines = << >> /\ scan = ScanInit /\ song = None
  /\ MainIdle /\ OutIdle /\ MergeIdle /\ SnapIdle /\ LabelIdle /\ KeyIdle

parseFrame == << mainVars, mergeVars, snapVars, labelVars, keyVars, raw_lines, filename >>

\* Lines 337-338
ParseReject ==
  /\ ppc = "start" /\ ~is_chord_file(raw_lines)
  /\ song' = None
  /\ ppc' = "returned"
  /\ UNCHANGED << parseFrame, outVars, title, body_lines, scan >>

\* Lines 340-409
ParseHeader ==
  /\ ppc = "start" /\ is_chord_file(raw_lines)
  /\ title' = Header(raw_lines, filename).title
  /\ body_lines' = Header(raw_lines, filename).body_lines
  /\ scan' = ScanInit
  /\ ppc' = "scan"
  /\ UNCHANGED << parseFrame, outVars, song >>

\* Lines 411-464: the tests that choose the branch for the line at offset i.
Classify ==
  /\ ppc = "scan" /\ scan.i < Len(body_lines)
  /\ ppc' = LineKind(body_lines, scan.i)
  /\ UNCHANGED << parseFrame, outVars, title, body_lines, scan, song >>

\* Lines 416-421
StepBlank ==
  /\ ppc = "blank"
  /\ scan' = ScanBlank(scan)
  /\ ppc' = "scan"
  /\ UNCHANGED << parseFrame, outVars, title, body_lines, song >>

\* Lines 424-435
StepLabel ==
  /\ ppc = "label"
  /\ scan' = ScanLabel(body_lines, scan)
  /\ ppc' = "scan"
  /\ UNCHANGED << parseFrame, outVars, title, body_lines, song >>

\* Lines 438-450
StepMerge ==
  /\ ppc = "merge"
  /\ scan' = ScanMerge(body_lines, scan)
  /\ ppc' = "scan"
  /\ UNCHANGED << parseFrame, outVars, title, body_lines, song >>

\* Lines 438-444, 451-458
StepChords ==
  /\ ppc = "chords"
  /\ scan' = ScanChords(body_lines, scan)
  /\ ppc' = "scan"
  /\ UNCHANGED << parseFrame, outVars, title, body_lines, song >>

\* Lines 461-464
StepInline ==
  /\ ppc = "inline"
  /\ scan' = ScanInline(body_lines, scan)
  /\ ppc' = "scan"
  /\ UNCHANGED << parseFrame, outVars, title, body_lines, song >>

\* Lines 466-473
StepLyric ==
  /\ ppc = "lyric"
  /\ scan' = ScanLyric(body_lines, scan)
  /\ ppc' = "scan"
  /\ UNCHANGED << parseFrame, outVars, title, body_lines, song >>

\* Lines 475-505
ParseFinish ==
  /\ ppc = "scan" /\ scan.i >= Len(body_lines)
  /\ song' = Song(title, CleanSections(Flush(scan)))
  /\ ppc' = "returned"
  /\ UNCHANGED << parseFrame, outVars, title, body_lines, scan >>

\* Lines 613-622 on the returned song.
MainAppend ==
  /\ ppc = "returned" /\ song # None
  /\ ~MatchFound(normalize_title(song.title), existing_titles)
  /\ new_songs' = Append(new_songs, song)
  /\ ppc' = "appended"
  /\ UNCHANGED << parseFrame, skipped, title, body_lines, scan, song >>

\* Lines 613, 623-624 on a document that returned nothing.
MainSkip ==
  /\ ppc = "returned" /\ song = None
  /\ skipped' = Append(skipped, << filename, "not a chord file" >>)
  /\ ppc' = "skipped"
  /\ UNCHANGED << parseFrame, new_songs, title, body_lines, scan, song >>

NextParse ==
  \/ ParseReject \/ ParseHeader \/ Classify
  \/ StepBlank \/ StepLabel \/ StepMerge \/ StepChords \/ StepInline \/ StepLyric
  \/ ParseFinish \/ MainAppend \/ MainSkip

SpecParse == InitParse /\ [][NextParse]_vars

(***************************************************************************)
(* One pair of lines through merge_chord_and_lyric_lines                   *)
(***************************************************************************)
MaxLyricLen == 7

ChordLinePool ==
  { << >>,
    <<"G">>,
    <<" ", " ", "G", " ", "C">>,
    <<" ", "G", " ", " ", " ", "C">>,
    <<"G", " ", " ", " ", " ", " ", " ", " ", "C">>,
    <<TAB, "D", " ", "E", "m">> }

\* The lines of at most n characters over "a", "b" and the space in which
\* "b" only follows "a".
LyricPool(n) ==
  {l \in UNION {[1..k -> {"a", "b", " "}] : k \in 0..n} :
     \A i \in DOMAIN l : l[i] = "b" => (i > 1 /\ l[i - 1] = "a")}

InitMerge ==
  /\ chord_line \in ChordLinePool
  /\ lyric_line \in LyricPool(MaxLyricLen)
  /\ mpc = "start" /\ chords = << >> /\ lyric = << >> /\ snapped = << >>
  /\ result = << >> /\ remaining = 0
  /\ MainIdle /\ OutIdle /\ ParseIdle /\ SnapIdle /\ LabelIdle /\ KeyIdle

mergeFrame == << mainVars, outVars, parseVars, snapVars, labelVars, keyVars, chord_line, lyric_line >>

\* Lines 208-210
MergeNoChords ==
  /\ mpc = "start" /\ extract_chords_with_positions(chord_line) = << >>
  /\ result' = Strip(lyric_line)
  /\ mpc' = "done"
  /\ UNCHANGED << mergeFrame, chords, lyric, snapped, remaining >>

\* Lines 208-222
MergeSnap ==
  /\ mpc = "start" /\ extract_chords_with_positions(chord_line) # << >>
  /\ chords' = extract_chords_with_positions(chord_line)
  /\ lyric' = PaddedLyric(chords', lyric_line)
  /\ snapped' = Snapped(chords', lyric')
  /\ result' = lyric'
  /\ remaining' = Len(chords')
  /\ mpc' = "insert"
  /\ UNCHANGED mergeFrame

\* Lines 223-225: one iteration over reversed(snapped).
MergeInsert ==
  /\ mpc = "insert" /\ remaining > 0
  /\ result' = InsertChord(result, snapped[remaining][1], snapped[remaining][2])
  /\ remaining' = remaining - 1
  /\ UNCHANGED << mergeFrame, chords, lyric, snapped, mpc >>

\* Lines 227-233
MergeClean ==
  /\ mpc = "insert" /\ remaining = 0
  /\ result' = Strip(CleanInner(CleanTrailing(result), 0))
  /\ mpc' = "done"
  /\ UNCHANGED << mergeFrame, chords, lyric, snapped, remaining >>

NextMerge == MergeNoChords \/ MergeSnap \/ MergeInsert \/ MergeClean

SpecMerge == InitMerge /\ [][NextMerge]_vars

(***************************************************************************)
(* One column through snap_to_word_boundary                                *)
(***************************************************************************)
MaxSnapLen == 6

\* A word of n letters, then gap spaces, then a word of one letter.
Spaced(n, gap) == Repeat("a", n) \o Repeat(" ", gap) \o <<"b">>

\* Columns of lines whose words and gaps reach the distance FarDist.
FarPool ==
  {<< 1, Spaced(1, g) >> : g \in {FarDist - 1, FarDist, FarDist + 1}}
  \cup {<< n - 1, Repeat("a", n) >> : n \in {FarDist, FarDist + 1, FarDist + 2}}

SnapPool ==
  {c \in (0..(MaxSnapLen - 1)) \X LyricPool(MaxSnapLen) : c[1] < Len(c[2])} \cup FarPool

InitSnap ==
  /\ \E c \in SnapPool : snap_pos = c[1] /\ snap_lyric = c[2]
  /\ spc = "start" /\ snap_out = 0
  /\ MainIdle /\ OutIdle /\ ParseIdle /\ MergeIdle /\ LabelIdle /\ KeyIdle

\* Lines 157-200
Snap ==
  /\ spc = "start"
  /\ snap_out' = snap_to_word_boundary(snap_pos, snap_lyric)
  /\ spc' = "done"
  /\ UNCHANGED << mainVars, outVars, parseVars, mergeVars, labelVars, keyVars, snap_pos, snap_lyric >>

NextSnap == Snap

SpecSnap == InitSnap /\ [][NextSnap]_vars

(***************************************************************************)
(* Properties of the batch                                                 *)
(***************************************************************************)
\* '--force' in sys.argv
ForceFlag == \E i \in DOMAIN argv : argv[i] = FORCE

\* What the loader hands to main() from the catalog file.
Persisted == load_existing_songs(catalog_file)

Related(a, b) == a = b \/ Contains(a, b) \/ Contains(b, a)

RelatedToSome(nt, songs) ==
  \E k \in DOMAIN songs : Related(nt, normalize_title(songs[k].title))

\* The songs the documents parse to, in the order the files are processed.
FreshSongs ==
  LET Ok(k) == lyrics_dir[files[k]].conv = "ok" /\ parsed[files[k]] # None
      At(ks) == [j \in DOMAIN ks |-> parsed[files[ks[j]]]]
  IN  At(SelectSeq([k \in DOMAIN files |-> k], Ok))

InCatalog(s) == \E j \in DOMAIN written : written[j] = s

Count(q, s) == Cardinality({k \in DOMAIN q : q[k] = s})

Elements(q) == {q[k] : k \in DOMAIN q}

\* C1: in default mode every persisted entry is in the written catalog unchanged,
\* and the songs appended are exactly the freshly parsed songs whose normalized
\* title neither equals, contains nor is contained by a persisted normalized title.
C1_DefaultModePreserves ==
  (pc = "done" /\ ~ForceFlag /\ ForceSongs(argv) = {}) =>
    /\ \A k \in DOMAIN Persisted : InCatalog(Persisted[k])
    /\ new_songs = SelectSeq(FreshSongs,
                             LAMBDA s : ~RelatedToSome(normalize_title(s.title), Persisted))
    /\ \A k \in DOMAIN new_songs : InCatalog(new_songs[k])
    /\ Len(written) = Len(Persisted) + Len(new_songs)

\* A default run that kept entries, appended a song and discarded a duplicate
\* whose title only contains, or is contained in, a persisted title.
C1_Witness ==
  /\ pc = "done" /\ ~ForceFlag /\ ForceSongs(argv) = {}
  /\ Persisted # << >> /\ new_songs # << >>
  /\ \E k \in DOMAIN FreshSongs :
       /\ RelatedToSome(normalize_title(FreshSongs[k].title), Persisted)
       /\ normalize_title(FreshSongs[k].title) \notin Titles(Persisted)

\* The entries a title fragment selects by line 589, in either direction.
Selected(s) ==
  \E f \in ForceSongs(argv) :
    Contains(normalize_title(s.title), f) \/ Contains(f, normalize_title(s.title))

\* C2: with --force-song the persisted entries whose normalized title contains a
\* fragment or is contained in one are exactly the ones removed from the
\* preserved set and from the titles that block a fresh song; every other
\* persisted entry stays preserved and is written unchanged.
C2_ForceSongRemovesMatches ==
  (pc \in {"loop", "done"} /\ ~ForceFlag /\ ForceSongs(argv) # {}) =>
    /\ existing_songs = SelectSeq(Persisted, LAMBDA s : ~Selected(s))
    /\ existing_titles = Titles(existing_songs)
    /\ pc = "done" => \A k \in DOMAIN existing_songs : InCatalog(existing_songs[k])

\* An entry was removed whose title does not contain the fragment but is
\* contained in it, while another entry was kept.
C2_Witness ==
  /\ pc = "done" /\ ~ForceFlag
  /\ existing_songs # << >>
  /\ \E f \in ForceSongs(argv) : \E k \in DOMAIN Persisted :
       /\ Contains(f, normalize_title(Persisted[k].title))
       /\ ~Contains(normalize_title(Persisted[k].title), f)
       /\ Persisted[k] \notin Elements(existing_songs)

\* C2 as stated: when the one fragment is a substring of exactly one persisted
\* normalized title, that entry and only that one is removed; every other
\* persisted entry is in the written catalog.
C2_OnlyThatOneRemoved ==
  (pc = "done" /\ ~ForceFlag) =>
    \A f \in ForceSongs(argv) : \A k \in DOMAIN Persisted :
      ( /\ ForceSongs(argv) = {f}
        /\ Contains(normalize_title(Persisted[k].title), f)
        /\ \A j \in DOMAIN Persisted \ {k} : ~Contains(normalize_title(Persisted[j].title), f) )
      => /\ Persisted[k] \notin Elements(existing_songs)
         /\ \A j \in DOMAIN Persisted \ {k} :
              Persisted[j] \in Elements(existing_songs) /\ InCatalog(Persisted[j])

\* C3: with --force no persisted entry is in the written catalog and every
\* document that parses to a song is appended, whatever the catalog held.
C3_ReimportAllDiscards ==
  (pc = "done" /\ ForceFlag) =>
    /\ existing_songs = << >>
    /\ new_songs = FreshSongs
    /\ Len(written) = Len(FreshSongs)
    /\ \A s \in Elements(FreshSongs) : InCatalog(s)
    /\ catalog_file.kind = "array" =>
         \A k \in DOMAIN catalog_file.songs : ~InCatalog(catalog_file.songs[k])

\* A --force run over a catalog holding the title of a song that was appended.
C3_Witness ==
  /\ pc = "done" /\ ForceFlag
  /\ catalog_file.kind = "array"
  /\ \E k \in DOMAIN catalog_file.songs : \E j \in DOMAIN new_songs :
       /\ HasTitle(catalog_file.songs[k])
       /\ normalize_title(catalog_file.songs[k].title) = normalize_title(new_songs[j].title)

\* C4: the written catalog holds exactly the preserved entries and the appended
\* songs, each as often as it occurs there, and no entry's lowercased title is
\* greater than the lowercased title of the entry after it.
C4_WrittenIsSortedUnion ==
  pc = "done" =>
    /\ Len(written) = Len(existing_songs) + Len(new_songs)
    /\ \A s \in Elements(written) \cup Elements(existing_songs \o new_songs) :
         Count(written, s) = Count(existing_songs \o new_songs, s)
    /\ \A k \in 1..(Len(written) - 1) :
         ~StrLess(Lower(written[k + 1].title), Lower(written[k].title))

\* A written catalog of preserved and appended entries that sorting reordered.
C4_Witness ==
  /\ pc = "done"
  /\ existing_songs # << >> /\ new_songs # << >>
  /\ written # existing_songs \o new_songs

Failed(k) == lyrics_dir[files[k]].conv # "ok"

\* C6: a document whose conversion fails is named in the skip report and gives no
\* song; every document is still processed, and the catalog is written with every
\* preserved entry and every song the other documents parse to that no preserved
\* title blocks.
C6_ConversionFailureSkipped ==
  /\ pc \in {"loop", "done"} => Len(skipped) + Len(new_songs) + already_existed = idx
  /\ pc = "done" =>
       /\ idx = Len(files)
       /\ \A k \in DOMAIN files :
            Failed(k) => \E j \in DOMAIN skipped : skipped[j][1] = files[k]
       /\ new_songs = SelectSeq(FreshSongs,
                                LAMBDA s : ~RelatedToSome(normalize_title(s.title), existing_songs))
       /\ \A s \in Elements(existing_songs) \cup Elements(new_songs) : InCatalog(s)

\* A failed conversion was followed by a document whose song was appended, and
\* the catalog was written with preserved entries.
C6_Witness ==
  /\ pc = "done" /\ existing_songs # << >>
  /\ \E k, j \in DOMAIN files :
       /\ k < j /\ Failed(k)
       /\ lyrics_dir[files[j]].conv = "ok" /\ parsed[files[j]] # None
       /\ parsed[files[j]] \in Elements(new_songs)

Malformed ==
  \/ catalog_file.kind \in {"unreadable", "nomatch", "badjson"}
  \/ /\ catalog_file.kind = "array"
     /\ \E k \in DOMAIN catalog_file.songs : ~HasTitle(catalog_file.songs[k])

\* C7: when the catalog file is absent or malformed the batch does not fail: the
\* catalog loaded is empty, every freshly parsed song is appended, and the written
\* catalog holds those songs only.
C7_LoadNeverFails ==
  (~ForceFlag /\ (catalog_file.kind = "absent" \/ Malformed)) =>
    /\ pc # "raised"
    /\ pc # "start" => existing_songs = << >>
    /\ pc = "done" => new_songs = FreshSongs /\ Len(written) = Len(FreshSongs)

(***************************************************************************)
(* Properties of the section parser                                        *)
(***************************************************************************)
Returned == ppc \in {"returned", "appended", "skipped"}

Blank == << >>

\* A song as parse_chord_file may return it.
WellFormed(s) ==
  /\ s.sections # << >>
  /\ \A k \in DOMAIN s.sections :
       /\ s.sections[k].lines # << >>
       /\ s.sections[k].lines[1] # Blank
       /\ s.sections[k].lines[Len(s.sections[k].lines)] # Blank
       /\ \A j \in 1..(Len(s.sections[k].lines) - 1) :
            ~(s.sections[k].lines[j] = Blank /\ s.sections[k].lines[j + 1] = Blank)

\* C5: what parse_chord_file returns is nothing or a song with at least one
\* section, each section with at least one line, no blank marker first or last
\* and no two blank markers in a row; a document left with no section gives no
\* song and is not appended to new_songs.
C5_SectionsWellFormed ==
  /\ (Returned /\ song # None) => WellFormed(song)
  /\ \A k \in DOMAIN new_songs : WellFormed(new_songs[k])
  /\ (Returned /\ CleanSections(Flush(scan)) = << >>) => (song = None /\ new_songs = << >>)
  /\ ppc = "appended" => new_songs = << song >>

\* A song was appended from a section the scan left with two blank markers in
\* a row between two lines, and with its lines changed by the cleaning.
C5_Witness ==
  /\ ppc = "appended"
  /\ \E k \in DOMAIN Flush(scan) :
       /\ Flush(scan)[k].lines # CleanLines(Flush(scan)[k].lines)
       /\ \E j \in 2..(Len(Flush(scan)[k].lines) - 2) :
            /\ Flush(scan)[k].lines[j] = Blank /\ Flush(scan)[k].lines[j + 1] = Blank
            /\ Flush(scan)[k].lines[j - 1] # Blank /\ Flush(scan)[k].lines[j + 2] # Blank

\* The lines the section parser has put out so far.
Emitted ==
  LET Of(sections) == UNION {Elements(sections[k].lines) : k \in DOMAIN sections}
  IN  IF Returned THEN (IF song = None THEN {} ELSE Of(song.sections))
      ELSE Of(Append(scan.sections, scan.current))

\* The line has inline chord brackets and text besides them.
InlineWithText(line) ==
  /\ InlineSpans(line, 0) # << >>
  /\ Strip(InlineRemoved(line, InlineSpans(line, 0))) # << >>

\* The line at offset i is the first non-blank line after a chord line.
FollowsChordLine(i) ==
  \E c \in 0..(i - 1) :
    /\ is_chord_line(body_lines[c + 1])
    /\ parse_section_label(Strip(body_lines[c + 1])) = None
    /\ \A k \in (c + 1)..(i - 1) : IsBlank(body_lines[k + 1])

\* The body lines of inline chords and text the loop has passed.
PassedInline == {i \in 0..(Len(body_lines) - 1) : i < scan.i /\ InlineWithText(body_lines[i + 1])}

\* C10: a body line with inline chord brackets and lyric text that is neither a
\* section label nor a chord line, and is not the first non-blank line after a
\* chord line, is put out with its leading and trailing whitespace trimmed and
\* nothing else changed.
C10_InlineLinePassedThrough ==
  \A i \in PassedInline :
    ( /\ parse_section_label(Strip(body_lines[i + 1])) = None
      /\ ~is_chord_line(body_lines[i + 1])
      /\ ~FollowsChordLine(i) )
    => Strip(body_lines[i + 1]) \in Emitted

\* A song was appended in which such a line, written with whitespace around it,
\* stands trimmed.
C10_Witness ==
  /\ ppc = "appended"
  /\ \E i \in PassedInline :
       /\ parse_section_label(Strip(body_lines[i + 1])) = None
       /\ ~is_chord_line(body_lines[i + 1])
       /\ ~FollowsChordLine(i)
       /\ Strip(body_lines[i + 1]) # body_lines[i + 1]
       /\ Strip(body_lines[i + 1]) \in Emitted

\* C10 as stated: every body line with inline chord brackets and lyric text is
\* put out trimmed and otherwise unchanged, whatever lines are around it.
C10_AnyInlineLinePassedThrough ==
  \A i \in PassedInline : Strip(body_lines[i + 1]) \in Emitted

(***************************************************************************)
(* Properties of the line merger and the snapper                           *)
(***************************************************************************)
\* The padded lyric with every bracketed chord before the character at its
\* snapped column, chords of one column in the order of the chord line.
TokensBefore(lyric_, snapped_) ==
  LET At(c) == SelectSeq(snapped_, LAMBDA e : e[1] = c)
      Tokens(es) == Concat([k \in DOMAIN es |-> Bracketed(es[k][2])])
  IN  Concat([c \in 1..(Len(lyric_) + 1) |->
                Tokens(At(c - 1)) \o (IF c <= Len(lyric_) THEN << lyric_[c] >> ELSE << >>)])

\* C8: the chords are inserted in descending order of snapped column, and before
\* the whitespace clean-up every [chord] stands whole right before the character
\* of its snapped column, so that without them the text is the padded lyric.
C8_DescendingInsertion ==
  (mpc = "insert" /\ remaining = 0) =>
    /\ \A k \in 1..(Len(snapped) - 1) : snapped[k][1] <= snapped[k + 1][1]
    /\ result = TokensBefore(lyric, snapped)

\* The rule of the word-boundary snapper, with no following word counted as
\* an infinite forward distance.
SnapRule(pos, lyric_) ==
  LET IsSpace(k) == lyric_[k + 1] = " "
      Following(next_word) == next_word < Len(lyric_)
      Pick(word_start, word_end, next_word) ==
        IF 2 * (pos - word_start) > word_end - word_start /\ Following(next_word)
        THEN next_word
        ELSE IF Following(next_word) /\ next_word - pos <= pos - word_start
        THEN next_word
        ELSE word_start
      After(word_start, word_end) ==
        Pick(word_start, word_end,
             Len(lyric_) - Cardinality({k \in word_end..(Len(lyric_) - 1) :
                                          \E j \in word_end..k : ~IsSpace(j)}))
      Word(word_start) ==
        After(word_start,
              Len(lyric_) - Cardinality({k \in pos..(Len(lyric_) - 1) :
                                           \E j \in pos..k : IsSpace(j)}))
  IN  IF pos = 0 \/ IsSpace(pos - 1) THEN pos
      ELSE Word(Cardinality({k \in 0..(pos - 1) : \E j \in k..(pos - 1) : IsSpace(j)}))

\* C9: for every lyric line and every column inside it, snap_to_word_boundary
\* returns what the rule gives.
C9_SnapFollowsRule ==
  spc = "done" => snap_out = SnapRule(snap_pos, snap_lyric)

(***************************************************************************)
(* The sections of one song through detect_key                             *)
(***************************************************************************)
MaxKeyLines == 2

MaxKeySections == 2

KeyLinePool ==
  { <<"l", "a">>,
    <<"[", "G", "]">>,
    <<"[", "C", "]", "a">>,
    <<"[", "C", "b", "]", "x">>,
    <<"[", "G", "]", "a", " ", "[", "C", "]", "b">>,
    <<"[", "B", "b", "m", "]", "a", " ", "[", "G", "/", "B", "]", "b">> }

KeySectionPool ==
  {NewSection("verse", << >>)} \cup
  {[type |-> "verse", label |-> << >>, lines |-> ls] :
     ls \in UNION {[1..n -> KeyLinePool] : n \in 1..MaxKeyLines}}

InitKey ==
  /\ key_sections \in UNION {[1..n -> KeySectionPool] : n \in 0..MaxKeySections}
  /\ kpc = "start" /\ key_out = << >>
  /\ MainIdle /\ OutIdle /\ ParseIdle /\ MergeIdle /\ SnapIdle /\ LabelIdle

\* Lines 249-260
DetectKey ==
  /\ kpc = "start"
  /\ key_out' = detect_key(key_sections)
  /\ kpc' = "done"
  /\ UNCHANGED << mainVars, outVars, parseVars, mergeVars, snapVars, labelVars, key_sections >>

NextKey == DetectKey

SpecKey == InitKey /\ [][NextKey]_vars

\* The roots, letter and accidental, of the bracketed chords of a line, left to right.
ChordRootsOf(line) ==
  LET At(p) == IF line[p + 2] \in Accidentals THEN Slice(line, p, p + 2) ELSE Slice(line, p, p + 1)
      Opens == SelectSeq([k \in DOMAIN line |-> k], LAMBDA k : InlineEnd(line, k - 1) >= 0)
  IN  [j \in DOMAIN Opens |-> At(Opens[j])]

SongRoots(sections) ==
  Concat([k \in DOMAIN sections |->
            Concat([j \in DOMAIN sections[k].lines |-> ChordRootsOf(sections[k].lines[j])])])

\* The most frequent of the roots, the first seen among equals; "C" for none.
MostFrequent(roots) ==
  LET N(r) == Cardinality({k \in DOMAIN roots : roots[k] = r})
      Best == {k \in DOMAIN roots : \A j \in DOMAIN roots : N(roots[j]) <= N(roots[k])}
  IN  IF roots = << >> THEN <<"C">>
      ELSE roots[CHOOSE k \in Best : \A j \in Best : k <= j]

\* C11: detect_key returns the root with the highest count over all bracketed
\* chords of all sections in order, the first seen winning a tie, and "C" only
\* when the song has no bracketed chord.
C11_KeyIsMostFrequentRoot ==
  kpc = "done" =>
    /\ key_out = MostFrequent(SongRoots(key_sections))
    /\ key_out = <<"C">> /\ <<"C">> \notin Elements(SongRoots(key_sections))
         => SongRoots(key_sections) = << >>

(***************************************************************************)
(* Documents around the chord-file threshold through the first test of     *)
(* parse_chord_file                                                        *)
(***************************************************************************)
MaxFileLines == 25

ChordishLines == { <<"G">>, <<" ", "[", "C", "]", "a">> }

\* n non-empty lines of which k are chord or inline-chord lines, the two groups
\* on either side of a blank line.
ThresholdDoc(n, k, line, first) ==
  LET Doc(chordish, plain) ==
        IF first THEN chordish \o << << >> >> \o plain ELSE plain \o << << >> >> \o chordish
  IN  Doc(Repeat(line, k), Repeat(<<"l", "a">>, n - k))

ThresholdPool ==
  {ThresholdDoc(c[1], c[2], c[3], c[4]) :
     c \in {d \in (0..MaxFileLines) \X (0..MaxFileLines) \X ChordishLines \X BOOLEAN :
              d[2] <= d[1]}}

InitFile ==
  /\ raw_lines \in ThresholdPool
  /\ filename = DocName
  /\ ppc = "start" /\ title = << >> /\ body_lines = << >> /\ scan = ScanInit /\ song = None
  /\ MainIdle /\ OutIdle /\ MergeIdle /\ SnapIdle /\ LabelIdle /\ KeyIdle

NextFile == ParseReject \/ ParseHeader \/ MainSkip

SpecFile == InitFile /\ [][NextFile]_vars

NonEmptyCount == Cardinality({i \in DOMAIN raw_lines : raw_lines[i] # << >>})

ChordishCount == Cardinality({i \in DOMAIN raw_lines : raw_lines[i] \in ChordishLines})

\* C12: a document is taken for a chord file exactly when 100 * k > 15 * n for
\* its n non-empty lines and its k chord or inline-chord lines; a document that
\* is not returns no song and goes to the skip report.
C12_ChordFileThreshold ==
  /\ ppc \in {"start", "scan", "returned", "skipped"}
  /\ ppc = "scan" => 100 * ChordishCount > 15 * NonEmptyCount
  /\ ppc \in {"returned", "skipped"} =>
       /\ 100 * ChordishCount <= 15 * NonEmptyCount
       /\ song = None /\ new_songs = << >>
  /\ ppc = "skipped" => Len(skipped) = 1

\* A document with exactly 15% of chord lines was rejected.
C12_Witness ==
  /\ ppc = "skipped" /\ song = None
  /\ NonEmptyCount = 20 /\ ChordishCount = 3

(***************************************************************************)
(* The chord-line branch of the body loop                                  *)
(***************************************************************************)
\* The offsets of the non-blank lines after offset i.
LaterLines(i) == {j \in (i + 1)..(Len(body_lines) - 1) : ~IsBlank(body_lines[j + 1])}

\* The first non-blank line after offset i is a lyric line: neither a chord
\* line nor a section label.
LyricFollows(i) ==
  /\ LaterLines(i) # {}
  /\ LET Lyric(j) == /\ ~is_chord_line(body_lines[j + 1])
                     /\ parse_section_label(Strip(body_lines[j + 1])) = None
     IN  Lyric(CHOOSE j \in LaterLines(i) : \A k \in LaterLines(i) : j <= k)

FirstLater(i) == CHOOSE j \in LaterLines(i) : \A k \in LaterLines(i) : j <= k

\* The chord tokens that make a line a chord line, each bracketed, joined by
\* single spaces.
StandaloneChords(line) ==
  LET Joined(tokens) == JoinWith([k \in DOMAIN tokens |-> Bracketed(tokens[k])], <<" ">>)
  IN  Joined(SelectSeq(Split(CollapseBar(Strip(line), 0, TRUE)), is_chord_token))

\* C13: a chord line followed, past any blank lines, by a lyric line is merged
\* with it into exactly one appended line and the scan resumes after the lyric
\* line, the skipped blank lines leaving no marker; any other chord line adds
\* its bracketed chord tokens joined by single spaces and the scan resumes at
\* the next line.
C13_ChordLineLookahead ==
  [][ /\ ppc = "scan" /\ scan.i < Len(body_lines) /\ ppc' # "scan"
         /\ ~IsBlank(body_lines[scan.i + 1])
         /\ parse_section_label(Strip(body_lines[scan.i + 1])) = None
         /\ is_chord_line(body_lines[scan.i + 1])
         => ppc' = IF LyricFollows(scan.i) THEN "merge" ELSE "chords"
      /\ ppc = "merge" =>
           /\ LyricFollows(scan.i)
           /\ scan'.current.lines =
                Append(scan.current.lines,
                       merge_chord_and_lyric_lines(body_lines[scan.i + 1],
                                                   body_lines[FirstLater(scan.i) + 1]))
           /\ scan'.i = FirstLater(scan.i) + 1
           /\ scan'.sections = scan.sections
      /\ ppc = "chords" =>
           /\ ~LyricFollows(scan.i)
           /\ scan'.current.lines =
                Append(scan.current.lines, StandaloneChords(body_lines[scan.i + 1]))
           /\ scan'.i = scan.i + 1
           /\ scan'.sections = scan.sections ]_vars

(***************************************************************************)
(* parse_section_label on one line                                         *)
(***************************************************************************)
\* The lines are a word, after "Repeat" or "Final" or neither, before a number
\* or not, in brackets or not.
InitLabel ==
  LET Words == { <<"V", "e", "r", "s", "e">>,
                <<"C", "h", "o", "r", "u", "s">>,
                <<"B", "r", "i", "d", "g", "e">>,
                <<"T", "a", "g">>,
                <<"I", "n", "t", "r", "o">>,
                <<"O", "u", "t", "r", "o">>,
                <<"E", "n", "d", "i", "n", "g">>,
                <<"P", "r", "e", "-", "C", "h", "o", "r", "u", "s">>,
                <<"P", "r", "e">>,
                <<"I", "n", "t", "e", "r", "l", "u", "d", "e">>,
                <<"T", "u", "r", "n">>,
                <<"V", "a", "m", "p">>,
                <<"E", "N", "D", "I", "N", "G">>,
                <<"l", "a">>,
                <<"G">> }
      Leads == { << >>, <<"R", "e", "p", "e", "a", "t", " ">>, <<"F", "i", "n", "a", "l", " ">> }
      Counts == { << >>, <<" ", "2">> }
      Line(text, bracket) == IF bracket THEN <<"[">> \o text \o <<"]">> ELSE text
  IN  /\ label_line \in {Line(c[1] \o c[2] \o c[3], c[4]) :
                          c \in Leads \X Words \X Counts \X BOOLEAN}
      /\ lpc = "start" /\ label_out = None
      /\ MainIdle /\ OutIdle /\ ParseIdle /\ MergeIdle /\ SnapIdle /\ KeyIdle

\* Lines 263-329
ParseLabel ==
  /\ lpc = "start"
  /\ label_out' = parse_section_label(label_line)
  /\ lpc' = "done"
  /\ UNCHANGED << mainVars, outVars, parseVars, mergeVars, snapVars, keyVars, label_line >>

NextLabel == ParseLabel

SpecLabel == InitLabel /\ [][NextLabel]_vars

\* The type the keyword order gives a label, whatever its form.
KeywordType(label_lower) ==
  IF Contains(label_lower, <<"v", "e", "r", "s", "e">>) THEN "verse"
  ELSE IF Contains(label_lower, <<"c", "h", "o", "r", "u", "s">>) \/ Contains(label_lower, <<"r", "e", "p", "e", "a", "t">>) THEN "chorus"
  ELSE IF Contains(label_lower, <<"b", "r", "i", "d", "g", "e">>) THEN "bridge"
  ELSE IF Contains(label_lower, <<"t", "a", "g">>) THEN "tag"
  ELSE IF Contains(label_lower, <<"i", "n", "t", "r", "o">>) THEN "intro"
  ELSE IF Contains(label_lower, <<"o", "u", "t", "r", "o">>) \/ Contains(label_lower, <<"e", "n", "d", "i", "n", "g">>) THEN "outro"
  ELSE IF Contains(label_lower, <<"p", "r", "e">>) THEN "pre-chorus"
  ELSE "section"

\* C14: the type of every recognized label, bracketed or not, is that of the
\* first keyword its lower-cased text contains, in the order verse, chorus or
\* repeat, bridge, tag, intro, outro or ending, pre, and section for none; the
\* type is one of the eight names.
C14_LabelTypeByKeyword ==
  lpc = "done" /\ label_out # None =>
    /\ label_out[1] = KeywordType(Lower(label_out[2]))
    /\ label_out[1] \in {"verse", "chorus", "bridge", "tag", "intro", "outro",
                         "pre-chorus", "section"}

(***************************************************************************)
(* The body loop as a whole                                                *)
(***************************************************************************)
\* A step of the parse seen through its position alone: NextParse is enabled
\* in every state before main() has appended or skipped the document, and
\* each of its steps moves ppc.
Proceed ==
  /\ ppc \notin {"appended", "skipped"}
  /\ ppc' \in {"start", "scan", "blank", "label", "merge", "chords", "inline", "lyric",
               "returned", "appended", "skipped"}

\* The interpreter runs the next statement: the loop of lines 411-473 runs on
\* once entered, and main() goes on with what parse_chord_file returned.
SpecParseFair == SpecParse /\ WF_ppc(Proceed)

StepKinds == {"blank", "label", "merge", "chords", "inline", "lyric"}

IsPrefix(s, t) == Len(s) <= Len(t) /\ SubSeq(t, 1, Len(s)) = s

\* The scan state t keeps what the scan state s had put out, in place: it adds
\* lines at the end of the open section, or closes the open section behind the
\* finished ones and opens an empty one.
GrowsAtEnd(s, t) ==
  \/ /\ t.sections = s.sections
     /\ t.current.type = s.current.type /\ t.current.label = s.current.label
     /\ IsPrefix(s.current.lines, t.current.lines)
  \/ /\ t.current.lines = << >>
     /\ t.sections = IF s.current.lines = << >> THEN s.sections
                     ELSE Append(s.sections, s.current)

\* The lines at offsets a .. b - 1 are a chord line, blank lines and one
\* lyric line, in this order.
LookaheadRange(a, b) ==
  /\ b >= a + 2
  /\ is_chord_line(body_lines[a + 1])
  /\ \A k \in (a + 1)..(b - 2) : IsBlank(body_lines[k + 1])
  /\ ~IsBlank(body_lines[b])

RECURSIVE IsSubsequence(_, _)
IsSubsequence(s, t) ==
  IF s = << >> THEN TRUE
  ELSE IF t = << >> THEN FALSE
  ELSE IF Head(s) = Head(t) THEN IsSubsequence(Tail(s), Tail(t))
  ELSE IsSubsequence(s, Tail(t))

Heads(sections) == [k \in DOMAIN sections |-> << sections[k].type, sections[k].label >>]

\* One step of the parse: an iteration takes the lines from its index up to
\* the index it leaves, at least one and none past the end; the tests between
\* two iterations move nothing; the loop ends with the index at the end; the
\* sections of the song are, in scan order, among those the scan put out.
ScanAdvances ==
  /\ ppc \in StepKinds =>
       /\ ppc' = "scan"
       /\ body_lines' = body_lines
       /\ scan.i < scan'.i /\ scan'.i <= Len(body_lines)
       /\ IF ppc = "merge" THEN LookaheadRange(scan.i, scan'.i) ELSE scan'.i = scan.i + 1
       /\ GrowsAtEnd(scan, scan')
  /\ ppc = "scan" =>
       /\ scan' = scan /\ body_lines' = body_lines
       /\ ppc' = "returned" <=> scan.i = Len(body_lines)
       /\ ppc' = "returned" /\ song' # None =>
            /\ IsSubsequence(Heads(song'.sections), Heads(Flush(scan)))
            /\ \A k \in DOMAIN song'.sections :
                 \E j \in DOMAIN Flush(scan) :
                   IsSubsequence(song'.sections[k].lines, Flush(scan)[j].lines)

\* C15: the body scan ends on every document: each iteration moves the index
\* forward, each body line belongs to exactly one iteration, what was put out
\* stays in place while later lines are added behind it, and parse_chord_file
\* returns.
C15_ScanTerminates ==
  /\ [][ScanAdvances]_vars
  /\ <>(ppc = "returned")

\* A scan of two body lines or more has ended on a song.
C15_Witness ==
  /\ ppc = "returned" /\ song # None
  /\ Len(body_lines) >= 2 /\ scan.i = Len(body_lines)
  /\ Len(Flush(scan)) >= 1

(***************************************************************************)
(* The titles that block a fresh song                                      *)
(***************************************************************************)
\* The normalized titles of the persisted entries that the run keeps: none
\* with --force, else those no --force-song fragment selects.
BlockingTitles ==
  IF ForceFlag THEN {} ELSE Titles(SelectSeq(Persisted, LAMBDA s : ~Selected(s)))

\* The offsets in files of the documents the loop has been through that parsed
\* to a song.
ParsedSoFar ==
  {k \in 1..idx : lyrics_dir[files[k]].conv = "ok" /\ parsed[files[k]] # None}

\* The songs of the documents the loop has been through, in file order.
SongsSoFar ==
  LET At(ks) == [j \in DOMAIN ks |-> parsed[files[ks[j]]]]
  IN  At(SelectSeq([k \in 1..idx |-> k], LAMBDA k : k \in ParsedSoFar))

\* C16: during the loop the titles that block a fresh song are those of the
\* kept persisted entries and nothing else; a song is appended exactly when
\* its normalized title matches none of them, whatever was appended before it,
\* so two documents with the same normalized title that matches no kept title
\* are both appended.
C16_BlockingTitlesFixed ==
  pc \in {"loop", "done"} =>
    /\ existing_titles = BlockingTitles
    /\ new_songs = SelectSeq(SongsSoFar,
                             LAMBDA s : ~MatchFound(normalize_title(s.title), BlockingTitles))
    /\ \A i, j \in ParsedSoFar :
         ( /\ i < j
           /\ normalize_title(parsed[files[i]].title) = normalize_title(parsed[files[j]].title)
           /\ ~MatchFound(normalize_title(parsed[files[i]].title), BlockingTitles) )
         => \E a, b \in DOMAIN new_songs :
              a < b /\ new_songs[a] = parsed[files[i]] /\ new_songs[b] = parsed[files[j]]

\* Two documents with the same normalized title were both appended and
\* written, beside a kept entry with another title.
C16_Witness ==
  /\ pc = "done" /\ existing_titles # {}
  /\ \E a, b \in DOMAIN new_songs :
       /\ a < b
       /\ normalize_title(new_songs[a].title) = normalize_title(new_songs[b].title)
  /\ Len(written) = Len(existing_songs) + 2
====
